---------------------------- MODULE Spec2Model ----------------------------
(***************************************************************************)
(* A model of cadnano2's Strand (src/model/strand.py).                     *)
(*                                                                         *)
(* Spec follows one strand of a StrandSet, the part-level insertion        *)
(* registry of its virtual helix, the four reversible commands (Resize,    *)
(* AddInsertion, RemoveInsertion, ChangeInsertion), the undo stack they    *)
(* are pushed on and the signals they emit.  SeqSpec applies setSequence   *)
(* to a strand, SetSpec follows all strands of a StrandSet (neighbours,    *)
(* merge, resize bounds, crossovers), SplitSpec a strand split in two and  *)
(* the insertion clean-up of the halves, GenSpec the iteration along 3'    *)
(* connections.                                                            *)
(***************************************************************************)
EXTENDS Integers, Sequences, FiniteSets, TLC

\* Base indices of the part run from 0 to MaxBaseIdx.
MaxBaseIdx == 1

\* The undo stack holds at most MaxStack commands.
MaxStack == 2

Idx == 0..MaxBaseIdx

\* The length arguments callers pass: a negative number, zero and positive
\* insertion lengths.
LengthArgs == {-3, 0, 2}

\* Identities of Insertion objects.  An identity is that of a live object:
\* one the registry or a command on the undo stack refers to.
ObjIds == 1..(MaxBaseIdx + 1 + MaxStack)

\* The one strand of the model, as the object the signals carry.
Self == "strand"

VARIABLES
    baseIdxLow,   \* Strand._baseIdxLow
    baseIdxHigh,  \* Strand._baseIdxHigh
    insertions,   \* part().insertions()[coord]: index -> Insertion object
    heap,         \* the live Insertion objects: identity -> [idx, length]
    undoStack,    \* the commands of the undo stack, oldest first
    undoIndex,    \* how many commands of undoStack are applied
    signals,      \* the signals emitted by the last call, in order
    error,        \* the exception raised inside the last call, or "none"
    lastOp,       \* the method last called
    snapshots,    \* history: the strand as it was at construction and
                  \* right after each command of undoStack was first applied
    sequence,     \* Strand._sequence
    returned,     \* what the last call returned (a generator: has yielded)
    strandList,   \* the strands of a StrandSet, in index order
    isDrawn5to3,  \* StrandSet.isDrawn5to3() as the strands' constructor read
                  \* it (Strand._isDrawn5to3)
    strand3p,     \* Strand._strand3p of every strand of a part
    gen,          \* the frame of a running generator3pStrand
    commandLists, \* the command list a split has obtained from each half,
                  \* and whether it is returned or executed
    strandSet,    \* Strand._strandSet of every strand of strandList
    args          \* the arguments of the last call, where a property needs
                  \* them

\* One strand and the registry of its helix
strandVars == <<baseIdxLow, baseIdxHigh, insertions, heap>>

\* The undo stack and its history
stackVars == <<undoStack, undoIndex, snapshots>>

\* All strands of a StrandSet
setVars == <<strandList, isDrawn5to3>>

genVars == <<strand3p, gen>>

\* The StrandSet a strand refers to and the arguments of a call
callVars == <<strandSet, args>>

vars == <<baseIdxLow, baseIdxHigh, insertions, heap, undoStack, undoIndex,
          signals, error, lastOp, snapshots, sequence, returned, strandList,
          isDrawn5to3, strand3p, gen, commandLists, strandSet, args>>

\* Python's None
None == "None"

\* None where a strand is expected: the position of no strand
NoStrand == 0

---------------------------------------------------------------------------
(* Python dicts and sorting *)

EmptyDict == [k \in {} |-> 0]

SetKey(d, k, v) == [x \in (DOMAIN d) \cup {k} |-> IF x = k THEN v ELSE d[x]]

DelKey(d, k) == [x \in (DOMAIN d) \ {k} |-> d[x]]

RECURSIVE sorted(_)
sorted(S) ==
    IF S = {} THEN <<>>
    ELSE LET m == CHOOSE x \in S : \A y \in S : x <= y
         IN  <<m>> \o sorted(S \ {m})

---------------------------------------------------------------------------
(* Strand queries, on the current state *)

idxs == <<baseIdxLow, baseIdxHigh>>

lowIdx == baseIdxLow

highIdx == baseIdxHigh

length == baseIdxHigh - baseIdxLow + 1

hasInsertionAt(idx) == idx \in DOMAIN insertions

\* Mutant: the bounds are ignored, every insertion of the registry counts.
insertionsOnStrand_unbounded(idxL, idxH) ==
    LET sortedIndices == sorted(DOMAIN insertions)
    IN  [n \in 1..Len(sortedIndices) |-> insertions[sortedIndices[n]]]

\* insertionsOnStrand(idxL, idxH); a call without bounds passes idxs.
insertionsOnStrand(idxL, idxH) ==
    LET sortedIndices == sorted(DOMAIN insertions)
        all == [n \in 1..Len(sortedIndices) |-> insertions[sortedIndices[n]]]
        InBounds(insertion) ==
            idxL <= heap[insertion].idx /\ heap[insertion].idx <= idxH
    IN  SelectSeq(all, InBounds)

RECURSIVE SumOfLengths(_)
SumOfLengths(objs) ==
    IF objs = <<>> THEN 0
    ELSE heap[Head(objs)].length + SumOfLengths(Tail(objs))

totalLength ==
    LET tL == SumOfLengths(insertionsOnStrand(baseIdxLow, baseIdxHigh))
    IN  tL + length

insertionLengthBetweenIdxs(idxL, idxH) ==
    SumOfLengths(insertionsOnStrand(idxL, idxH))

---------------------------------------------------------------------------
(* The state a command works on: the strand's indices, the registry, the   *)
(* Insertion objects, and what the call has emitted and raised so far.     *)

Current ==
    [low |-> baseIdxLow, high |-> baseIdxHigh, insertions |-> insertions,
     heap |-> heap, signals |-> <<>>, error |-> "none"]

\* Mutant: the two indices are stored crosswise.
setIdxs_crossed(st, newIdxs) ==
    [st EXCEPT !.low = newIdxs[2], !.high = newIdxs[1]]

setIdxs(st, newIdxs) ==
    [st EXCEPT !.low = newIdxs[1], !.high = newIdxs[2]]

emit(st, signal) == [st EXCEPT !.signals = Append(@, signal)]

raise(st, exception) == [st EXCEPT !.error = exception]

\* Insertion.setLength
setLength(st, insertion, len) ==
    [st EXCEPT !.heap = [@ EXCEPT ![insertion] = [@ EXCEPT !.length = len]]]

\* Insertion(idx, length): a new object, under an identity no live object has
NewInsertion ==
    CHOOSE o \in ObjIds \ DOMAIN heap :
        \A p \in ObjIds \ DOMAIN heap : o <= p

\* The Insertion objects the registry or a command still refers to
LiveInsertions(ins, stack) ==
    {ins[k] : k \in DOMAIN ins}
        \cup {stack[n].insertion :
                n \in {m \in DOMAIN stack :
                         stack[m].type \in {"AddInsertion", "RemoveInsertion"}}}

---------------------------------------------------------------------------
(* Strand.ResizeCommand *)

ResizeCommand(newIdxs) ==
    [type |-> "Resize", oldIndices |-> idxs, newIdxs |-> newIdxs]

ResizeCommand_redo(c, st) ==
    LET nI  == c.newIdxs
        st1 == setIdxs(st, nI)
        st2 == emit(st1, [sig |-> "strandResizedSignal", strand |-> Self,
                          idxs |-> nI])
    IN  emit(st2, [sig |-> "partStrandChangedSignal"])

\* Mutant: the undo emits the new indices, not the restored ones.
ResizeCommand_undo_emitsNew(c, st) ==
    LET oI  == c.oldIndices
        st1 == setIdxs(st, oI)
        st2 == emit(st1, [sig |-> "strandResizedSignal", strand |-> Self,
                          idxs |-> c.newIdxs])
    IN  emit(st2, [sig |-> "partStrandChangedSignal"])

ResizeCommand_undo(c, st) ==
    LET oI  == c.oldIndices
        st1 == setIdxs(st, oI)
        st2 == emit(st1, [sig |-> "strandResizedSignal", strand |-> Self,
                          idxs |-> oI])
    IN  emit(st2, [sig |-> "partStrandChangedSignal"])

(* Strand.AddInsertionCommand *)

AddInsertionCommand(idx, len) ==
    [type |-> "AddInsertion", idx |-> idx, length |-> len,
     insertion |-> NewInsertion]

AddInsertionCommand_redo(c, st) ==
    LET inst == c.insertion
        st1  == [st EXCEPT !.insertions = SetKey(@, c.idx, inst)]
    IN  emit(st1, [sig |-> "strandInsertionAddedSignal", strand |-> Self,
                   insertion |-> inst])

AddInsertionCommand_undo(c, st) ==
    IF c.idx \notin DOMAIN st.insertions THEN raise(st, "KeyError")
    ELSE LET st1 == [st EXCEPT !.insertions = DelKey(@, c.idx)]
         IN  emit(st1, [sig |-> "strandInsertionRemovedSignal",
                        strand |-> Self, idx |-> c.idx])

(* Strand.RemoveInsertionCommand *)

RemoveInsertionCommand(idx) ==
    [type |-> "RemoveInsertion", idx |-> idx, insertion |-> insertions[idx]]

RemoveInsertionCommand_redo(c, st) ==
    IF c.idx \notin DOMAIN st.insertions THEN raise(st, "KeyError")
    ELSE LET st1 == [st EXCEPT !.insertions = DelKey(@, c.idx)]
         IN  emit(st1, [sig |-> "strandInsertionRemovedSignal",
                        strand |-> Self, idx |-> c.idx])

\* Mutant: the undo stores the object and emits the signal of a removal.
RemoveInsertionCommand_undo_emitsRemoved(c, st) ==
    LET st1 == [st EXCEPT !.insertions = SetKey(@, c.idx, c.insertion)]
    IN  emit(st1, [sig |-> "strandInsertionRemovedSignal",
                   strand |-> Self, idx |-> c.idx])

RemoveInsertionCommand_undo(c, st) ==
    LET inst == c.insertion
        st1  == [st EXCEPT !.insertions = SetKey(@, c.idx, inst)]
    IN  emit(st1, [sig |-> "strandInsertionAddedSignal", strand |-> Self,
                   insertion |-> inst])

(* Strand.ChangeInsertionCommand *)

ChangeInsertionCommand(idx, newLength) ==
    [type |-> "ChangeInsertion", idx |-> idx, newLength |-> newLength,
     oldLength |-> heap[insertions[idx]].length]

\* Mutant: the change stores a new Insertion object at idx.
ChangeInsertionCommand_redo_newObject(c, st) ==
    IF c.idx \notin DOMAIN st.insertions THEN raise(st, "KeyError")
    ELSE LET inst == CHOOSE o \in ObjIds \ DOMAIN st.heap : TRUE
             st1  == [st EXCEPT
                        !.heap = SetKey(@, inst, [idx |-> c.idx,
                                                  length |-> c.newLength]),
                        !.insertions = SetKey(@, c.idx, inst)]
         IN  emit(st1, [sig |-> "strandInsertionChangedSignal",
                        strand |-> Self, insertion |-> inst])

ChangeInsertionCommand_redo(c, st) ==
    IF c.idx \notin DOMAIN st.insertions THEN raise(st, "KeyError")
    ELSE LET inst == st.insertions[c.idx]
             st1  == setLength(st, inst, c.newLength)
         IN  emit(st1, [sig |-> "strandInsertionChangedSignal",
                        strand |-> Self, insertion |-> inst])

\* Mutant: the undo sets the new length again.
ChangeInsertionCommand_undo_newLength(c, st) ==
    IF c.idx \notin DOMAIN st.insertions THEN raise(st, "KeyError")
    ELSE LET inst == st.insertions[c.idx]
             st1  == setLength(st, inst, c.newLength)
         IN  emit(st1, [sig |-> "strandInsertionChangedSignal",
                        strand |-> Self, insertion |-> inst])

ChangeInsertionCommand_undo(c, st) ==
    IF c.idx \notin DOMAIN st.insertions THEN raise(st, "KeyError")
    ELSE LET inst == st.insertions[c.idx]
             st1  == setLength(st, inst, c.oldLength)
         IN  emit(st1, [sig |-> "strandInsertionChangedSignal",
                        strand |-> Self, insertion |-> inst])

---------------------------------------------------------------------------
(* The undo stack (QUndoStack) and util.execCommandList *)

CommandRedo(c, st) ==
    CASE c.type = "Resize"          -> ResizeCommand_redo(c, st)
      [] c.type = "AddInsertion"    -> AddInsertionCommand_redo(c, st)
      [] c.type = "RemoveInsertion" -> RemoveInsertionCommand_redo(c, st)
      [] c.type = "ChangeInsertion" -> ChangeInsertionCommand_redo(c, st)

CommandUndo(c, st) ==
    CASE c.type = "Resize"          -> ResizeCommand_undo(c, st)
      [] c.type = "AddInsertion"    -> AddInsertionCommand_undo(c, st)
      [] c.type = "RemoveInsertion" -> RemoveInsertionCommand_undo(c, st)
      [] c.type = "ChangeInsertion" -> ChangeInsertionCommand_undo(c, st)

\* What a reader of the strand sees: its indices and the length stored at
\* each index of the registry.
Observed(st) ==
    [idxs |-> <<st.low, st.high>>,
     lengths |-> [k \in DOMAIN st.insertions |->
                    st.heap[st.insertions[k]].length]]

\* The state of the model after a call that left the strand in state st and
\* the undo stack as stack, index, with history snaps.
Commit(st, stack, index, snaps) ==
    /\ baseIdxLow' = st.low
    /\ baseIdxHigh' = st.high
    /\ insertions' = st.insertions
    /\ heap' = [o \in LiveInsertions(st.insertions, stack) |-> st.heap[o]]
    /\ undoStack' = stack
    /\ undoIndex' = index
    /\ signals' = st.signals
    /\ error' = st.error
    /\ snapshots' = snaps

\* A call that does nothing
NoOp == Commit(Current, undoStack, undoIndex, snapshots)

\* execCommandList(self, [c], desc, useUndoStack), the command built in
\* state st: pushed on the undo stack (which drops the undone commands and
\* calls redo) or, without the stack, just redone.
execCommandList(c, st, useUndoStack) ==
    IF useUndoStack
    THEN /\ undoIndex < MaxStack
         /\ LET st1 == CommandRedo(c, st)
            IN  Commit(st1, Append(SubSeq(undoStack, 1, undoIndex), c),
                       undoIndex + 1,
                       Append(SubSeq(snapshots, 1, undoIndex + 1),
                              Observed(st1)))
    ELSE Commit(CommandRedo(c, st), undoStack, undoIndex, snapshots)

---------------------------------------------------------------------------
(* The strand's editing methods *)

resize(newIdxs, useUndoStack) ==
    LET c == ResizeCommand(newIdxs)
    IN  execCommandList(c, Current, useUndoStack)

\* Mutant: a negative length is stored as given.
addInsertion_asGiven(idx, len, useUndoStack) ==
    LET idxLow  == idxs[1]
        idxHigh == idxs[2]
    IN  IF idxLow <= idx /\ idx <= idxHigh /\ ~hasInsertionAt(idx)
        THEN LET c  == AddInsertionCommand(idx, len)
                 st == [Current EXCEPT !.heap =
                          SetKey(@, c.insertion,
                                 [idx |-> idx, length |-> len])]
             IN  execCommandList(c, st, useUndoStack)
        ELSE NoOp

\* Mutant: an insertion already at idx is not looked for.
addInsertion_overwrites(idx, len, useUndoStack) ==
    LET idxLow  == idxs[1]
        idxHigh == idxs[2]
    IN  IF idxLow <= idx /\ idx <= idxHigh
        THEN LET len1 == IF len < 0 THEN -1 ELSE len
                 c    == AddInsertionCommand(idx, len1)
                 st   == [Current EXCEPT !.heap =
                            SetKey(@, c.insertion,
                                   [idx |-> idx, length |-> len1])]
             IN  execCommandList(c, st, useUndoStack)
        ELSE NoOp

addInsertion(idx, len, useUndoStack) ==
    LET idxLow  == idxs[1]
        idxHigh == idxs[2]
    IN  IF idxLow <= idx /\ idx <= idxHigh /\ ~hasInsertionAt(idx)
        THEN LET len1 == IF len < 0 THEN -1 ELSE len
                 c    == AddInsertionCommand(idx, len1)
                 st   == [Current EXCEPT !.heap =
                            SetKey(@, c.insertion,
                                   [idx |-> idx, length |-> len1])]
             IN  execCommandList(c, st, useUndoStack)
        ELSE NoOp

\* Mutant: the insertion is found and left where it is.
removeInsertion_kept(idx, useUndoStack) ==
    LET idxLow  == idxs[1]
        idxHigh == idxs[2]
    IN  IF idxLow <= idx /\ idx <= idxHigh /\ hasInsertionAt(idx)
        THEN NoOp
        ELSE NoOp

removeInsertion(idx, useUndoStack) ==
    LET idxLow  == idxs[1]
        idxHigh == idxs[2]
    IN  IF idxLow <= idx /\ idx <= idxHigh /\ hasInsertionAt(idx)
        THEN LET c == RemoveInsertionCommand(idx)
             IN  execCommandList(c, Current, useUndoStack)
        ELSE NoOp

\* Mutant: length 0 is changed to like any other length.
changeInsertion_zeroStored(idx, len, useUndoStack) ==
    LET idxLow  == idxs[1]
        idxHigh == idxs[2]
    IN  IF idxLow <= idx /\ idx <= idxHigh /\ hasInsertionAt(idx)
        THEN LET len1 == IF len < 0 THEN -1 ELSE len
                 c    == ChangeInsertionCommand(idx, len1)
             IN  execCommandList(c, Current, useUndoStack)
        ELSE NoOp

changeInsertion(idx, len, useUndoStack) ==
    LET idxLow  == idxs[1]
        idxHigh == idxs[2]
    IN  IF idxLow <= idx /\ idx <= idxHigh /\ hasInsertionAt(idx)
        THEN IF len = 0
             THEN removeInsertion(idx, TRUE)
             ELSE LET len1 == IF len < 0 THEN -1 ELSE len
                      c    == ChangeInsertionCommand(idx, len1)
                  IN  execCommandList(c, Current, useUndoStack)
        ELSE NoOp

\* QUndoStack.undo: the last applied command's undo
undo ==
    /\ undoIndex > 0
    /\ Commit(CommandUndo(undoStack[undoIndex], Current),
              undoStack, undoIndex - 1, snapshots)

\* QUndoStack.redo: the next undone command's redo
redo ==
    /\ undoIndex < Len(undoStack)
    /\ Commit(CommandRedo(undoStack[undoIndex + 1], Current),
              undoStack, undoIndex + 1, snapshots)

---------------------------------------------------------------------------
(* The calls a host makes.  Every call leaves useUndoStack at its default,  *)
(* True: each command goes through the undo stack.                         *)

CallResize(newIdxs, useUndoStack) ==
    /\ resize(newIdxs, useUndoStack)
    /\ lastOp' = "resize"
    /\ UNCHANGED <<sequence, returned, setVars, genVars, commandLists,
                 callVars>>

CallAddInsertion(idx, len, useUndoStack) ==
    /\ addInsertion(idx, len, useUndoStack)
    /\ lastOp' = "addInsertion"
    /\ UNCHANGED <<sequence, returned, setVars, genVars, commandLists,
                 callVars>>

CallRemoveInsertion(idx, useUndoStack) ==
    /\ removeInsertion(idx, useUndoStack)
    /\ lastOp' = "removeInsertion"
    /\ UNCHANGED <<sequence, returned, setVars, genVars, commandLists,
                 callVars>>

CallChangeInsertion(idx, len, useUndoStack) ==
    /\ changeInsertion(idx, len, useUndoStack)
    /\ lastOp' = "changeInsertion"
    /\ UNCHANGED <<sequence, returned, setVars, genVars, commandLists,
                 callVars>>

CallUndo ==
    /\ undo
    /\ lastOp' = "undo"
    /\ UNCHANGED <<sequence, returned, setVars, genVars, commandLists,
                 callVars>>

CallRedo ==
    /\ redo
    /\ lastOp' = "redo"
    /\ UNCHANGED <<sequence, returned, setVars, genVars, commandLists,
                 callVars>>

\* The variables a specification does not use
SeqIdle == sequence = None

SetIdle == strandList = <<>> /\ isDrawn5to3 = TRUE

\* No generator3pStrand has been made
NoGenerator ==
    [self |-> NoStrand, node |-> NoStrand, originalCount |-> 0,
     pc |-> "none"]

GenIdle == strand3p = <<>> /\ gen = NoGenerator

SplitIdle == commandLists = <<>>

\* No strand's StrandSet followed, no arguments kept
CallIdle == strandSet = <<>> /\ args = <<>>

\* Strand.__init__(strandSet, 0, MaxBaseIdx): a new strand over the whole
\* part, on a helix without insertions, nothing on the undo stack.
Init ==
    /\ baseIdxLow = 0
    /\ baseIdxHigh = MaxBaseIdx
    /\ insertions = EmptyDict
    /\ heap = EmptyDict
    /\ undoStack = <<>>
    /\ undoIndex = 0
    /\ signals = <<>>
    /\ error = "none"
    /\ lastOp = "init"
    /\ snapshots = <<Observed(Current)>>
    /\ returned = None
    /\ SeqIdle /\ SetIdle /\ GenIdle /\ SplitIdle /\ CallIdle

Next ==
    \/ \E newIdxs \in Idx \X Idx : CallResize(newIdxs, TRUE)
    \/ \E idx \in Idx, len \in LengthArgs : CallAddInsertion(idx, len, TRUE)
    \/ \E idx \in Idx : CallRemoveInsertion(idx, TRUE)
    \/ \E idx \in Idx, len \in LengthArgs :
           CallChangeInsertion(idx, len, TRUE)
    \/ CallUndo
    \/ CallRedo

Spec == Init /\ [][Next]_vars

---------------------------------------------------------------------------
(* The strands of a StrandSet: neighbours, crossovers, merge, resize       *)
(* bounds.  A strand is named by its position in the StrandSet's list.     *)

\* part().minBaseIdx() and part().maxBaseIdx() of the StrandSet's part,
\* two bases longer than the part of Spec so that three strands fit
minBaseIdx == 0

maxBaseIdx == MaxBaseIdx + 2

PartIdx == minBaseIdx..maxBaseIdx

\* The strand of another StrandSet a crossover connects to
Partner == "partner"

\* Strand.__init__: the indices and the 5' and 3' connections of a strand
Strands ==
    {s \in [low : PartIdx, high : PartIdx,
            strand5p : {None, Partner}, strand3p : {None, Partner}] :
        s.low <= s.high}

\* The lists of one to three strands a StrandSet keeps: in index order,
\* no two strands overlapping
StrandLists ==
    {l \in UNION {[1..n -> Strands] : n \in 1..3} :
        \A i \in DOMAIN l : i > 1 => l[i - 1].high < l[i].low}

connection3p(self) == strandList[self].strand3p

connection5p(self) == strandList[self].strand5p

\* Bound in __init__ from the StrandSet's direction
connectionLow(self) ==
    IF isDrawn5to3 THEN connection5p(self) ELSE connection3p(self)

connectionHigh(self) ==
    IF isDrawn5to3 THEN connection3p(self) ELSE connection5p(self)

\* StrandSet.getNeighbors(strand): the strands before and after it
getNeighbors(self) ==
    <<IF self > 1 THEN self - 1 ELSE NoStrand,
      IF self < Len(strandList) THEN self + 1 ELSE NoStrand>>

hasXoverAt(self, idx) ==
    IF idx = strandList[self].high
    THEN (IF connectionHigh(self) # None THEN TRUE ELSE FALSE)
    ELSE IF idx = strandList[self].low
    THEN (IF connectionLow(self) # None THEN TRUE ELSE FALSE)
    ELSE FALSE

getResizeBounds(self, idx) ==
    LET neighbors == getNeighbors(self)
    IN  IF idx = strandList[self].low
        THEN LET low == IF neighbors[1] # NoStrand
                        THEN strandList[neighbors[1]].high + 1
                        ELSE minBaseIdx
             IN  <<low, strandList[self].high - 1>>
        ELSE LET high == IF neighbors[2] # NoStrand
                         THEN strandList[neighbors[2]].low - 1
                         ELSE maxBaseIdx
             IN  <<strandList[self].low + 1, high>>

\* StrandSet.mergeStrands(strandA, strandB): one strand spanning both takes
\* their place, with the connections of the two outer ends
mergeStrands(self, neighbor) ==
    LET lo == IF self < neighbor THEN self ELSE neighbor
        hi == lo + 1
        merged ==
            [low |-> strandList[lo].low, high |-> strandList[hi].high,
             strand5p |-> IF isDrawn5to3 THEN strandList[lo].strand5p
                          ELSE strandList[hi].strand5p,
             strand3p |-> IF isDrawn5to3 THEN strandList[hi].strand3p
                          ELSE strandList[lo].strand3p]
    IN  [i \in 1..(Len(strandList) - 1) |->
            IF i < lo THEN strandList[i]
            ELSE IF i = lo THEN merged
            ELSE strandList[i + 1]]

\* Mutant: an index that is no endpoint is passed over in silence.
merge_silent(self, idx) ==
    LET lowNeighbor  == getNeighbors(self)[1]
        highNeighbor == getNeighbors(self)[2]
        unmerged == [strandList |-> strandList, error |-> "none"]
    IN  IF idx = strandList[self].low
        THEN IF lowNeighbor # NoStrand
                  /\ strandList[lowNeighbor].high = idx - 1
             THEN [strandList |-> mergeStrands(self, lowNeighbor),
                   error |-> "none"]
             ELSE unmerged
        ELSE IF idx = strandList[self].high
        THEN IF highNeighbor # NoStrand
                  /\ strandList[highNeighbor].low = idx + 1
             THEN [strandList |-> mergeStrands(self, highNeighbor),
                   error |-> "none"]
             ELSE unmerged
        ELSE unmerged

\* merge(idx): the strand list it leaves and the exception it raises
merge(self, idx) ==
    LET lowNeighbor  == getNeighbors(self)[1]
        highNeighbor == getNeighbors(self)[2]
        unmerged == [strandList |-> strandList, error |-> "none"]
    IN  IF idx = strandList[self].low
        THEN IF lowNeighbor # NoStrand
                  /\ strandList[lowNeighbor].high = idx - 1
             THEN [strandList |-> mergeStrands(self, lowNeighbor),
                   error |-> "none"]
             ELSE unmerged
        ELSE IF idx = strandList[self].high
        THEN IF highNeighbor # NoStrand
                  /\ strandList[highNeighbor].low = idx + 1
             THEN [strandList |-> mergeStrands(self, highNeighbor),
                   error |-> "none"]
             ELSE unmerged
        ELSE [strandList |-> strandList, error |-> "IndexError"]

\* The variables the StrandSet calls leave alone
SetFrame ==
    UNCHANGED <<strandVars, stackVars, isDrawn5to3, sequence, genVars,
                commandLists, callVars>>

CallHasXoverAt(self, idx) ==
    /\ returned' = hasXoverAt(self, idx)
    /\ lastOp' = "hasXoverAt"
    /\ signals' = <<>>
    /\ error' = "none"
    /\ UNCHANGED strandList
    /\ SetFrame

CallGetResizeBounds(self, idx) ==
    /\ returned' = getResizeBounds(self, idx)
    /\ lastOp' = "getResizeBounds"
    /\ signals' = <<>>
    /\ error' = "none"
    /\ UNCHANGED strandList
    /\ SetFrame

CallMerge(self, idx) ==
    /\ strandList' = merge(self, idx).strandList
    /\ error' = merge(self, idx).error
    /\ lastOp' = "merge"
    /\ signals' = <<>>
    /\ returned' = None
    /\ SetFrame

\* A caller that moves one end of a strand: it asks getResizeBounds for the
\* bounds of the end's index and calls resize with that end at an index
\* within them; the ResizeCommand is redone on the strand.
CallResizeWithinBounds(self, end, newIdx) ==
    LET s       == strandList[self]
        idx     == IF end = "low" THEN s.low ELSE s.high
        bounds  == getResizeBounds(self, idx)
        newIdxs == IF end = "low" THEN <<newIdx, s.high>>
                   ELSE <<s.low, newIdx>>
        c       == [type |-> "Resize", oldIndices |-> <<s.low, s.high>>,
                    newIdxs |-> newIdxs]
        st      == [Current EXCEPT !.low = s.low, !.high = s.high]
        st1     == ResizeCommand_redo(c, st)
    IN  /\ bounds[1] <= newIdx
        /\ newIdx <= bounds[2]
        /\ strandList' = [strandList EXCEPT ![self].low = st1.low,
                                            ![self].high = st1.high]
        /\ signals' = st1.signals
        /\ error' = st1.error
        /\ lastOp' = "resize"
        /\ returned' = None
        /\ SetFrame

\* A specification that does not follow the strand of Spec or its undo stack
EditIdle ==
    /\ baseIdxLow = 0
    /\ baseIdxHigh = MaxBaseIdx
    /\ insertions = EmptyDict
    /\ heap = EmptyDict

StackIdle == undoStack = <<>> /\ undoIndex = 0 /\ snapshots = <<>>

\* Any list a StrandSet keeps, drawn in either direction, no call made yet
SetInit ==
    /\ strandList \in StrandLists
    /\ isDrawn5to3 \in BOOLEAN
    /\ signals = <<>>
    /\ error = "none"
    /\ lastOp = "init"
    /\ returned = None
    /\ EditIdle /\ StackIdle /\ SeqIdle /\ GenIdle /\ SplitIdle /\ CallIdle

SetNext ==
    \/ \E self \in DOMAIN strandList, idx \in PartIdx :
           CallHasXoverAt(self, idx)
    \/ \E self \in DOMAIN strandList, idx \in PartIdx :
           CallGetResizeBounds(self, idx)
    \/ \E self \in DOMAIN strandList, idx \in PartIdx : CallMerge(self, idx)
    \/ \E self \in DOMAIN strandList, end \in {"low", "high"},
          newIdx \in PartIdx :
           CallResizeWithinBounds(self, end, newIdx)

SetSpec == SetInit /\ [][SetNext]_vars

---------------------------------------------------------------------------
(* A strand split in two, and the insertions each half gives up.  The      *)
(* strand that is split is (baseIdxLow, baseIdxHigh); the two halves are   *)
(* the strands of strandList; all three are on the same helix and so       *)
(* share the registry.                                                     *)

\* StrandSet.splitStrand(strand, idx): the strand's interval broken after
\* idx; the connections of the halves are not followed here
splitStrand(idx) ==
    <<[low |-> baseIdxLow, high |-> idx,
       strand5p |-> None, strand3p |-> None],
      [low |-> idx + 1, high |-> baseIdxHigh,
       strand5p |-> None, strand3p |-> None]>>

getRemoveInsertionCommandsAfterSplit(self) ==
    LET insts  == insertions
        idxMin == strandList[self].low
        idxMax == strandList[self].high
        Removed(key) == key > idxMax \/ key < idxMin
        keys   == SelectSeq(sorted(DOMAIN insts), Removed)
    IN  [n \in 1..Len(keys) |-> RemoveInsertionCommand(keys[n])]

\* util.execCommandList(self, commands, ...): the commands redone in order,
\* up to the first that raises
RECURSIVE RedoAll(_, _)
RedoAll(commands, st) ==
    IF commands = <<>> \/ st.error # "none" THEN st
    ELSE RedoAll(Tail(commands), CommandRedo(Head(commands), st))

SplitFrame ==
    UNCHANGED <<stackVars, isDrawn5to3, sequence, genVars, callVars>>

CallSplit(idx) ==
    /\ strandList = <<>>
    /\ baseIdxLow <= idx
    /\ idx < baseIdxHigh
    /\ strandList' = splitStrand(idx)
    /\ lastOp' = "split"
    /\ signals' = <<>>
    /\ error' = "none"
    /\ returned' = None
    /\ UNCHANGED <<strandVars, commandLists>>
    /\ SplitFrame

CallGetRemoveInsertionCommandsAfterSplit(self) ==
    /\ self \in DOMAIN strandList
    /\ commandLists[self].status = "none"
    /\ error = "none"
    /\ returned' = getRemoveInsertionCommandsAfterSplit(self)
    /\ commandLists' =
          [commandLists EXCEPT
             ![self] = [status |-> "returned", commands |-> returned']]
    /\ lastOp' = "getRemoveInsertionCommandsAfterSplit"
    /\ signals' = <<>>
    /\ error' = "none"
    /\ UNCHANGED <<strandVars, strandList>>
    /\ SplitFrame

\* The list a half returned is executed
CallExecCommandList(self) ==
    /\ self \in DOMAIN strandList
    /\ commandLists[self].status = "returned"
    /\ error = "none"
    /\ LET st == RedoAll(commandLists[self].commands, Current)
       IN  /\ insertions' = st.insertions
           /\ heap' = st.heap
           /\ signals' = st.signals
           /\ error' = st.error
    /\ commandLists' = [commandLists EXCEPT ![self].status = "executed"]
    /\ lastOp' = "execCommandList"
    /\ returned' = None
    /\ UNCHANGED <<baseIdxLow, baseIdxHigh, strandList>>
    /\ SplitFrame

\* The registries of a helix: any indices of the part, a skip or an
\* insertion of two bases at each
Registries ==
    UNION {[keys -> {-1, 2}] : keys \in SUBSET PartIdx}

\* The registry holds an Insertion object of the given length at each
\* index of lengths
HasRegistry(lengths) ==
    /\ insertions = [k \in DOMAIN lengths |-> k + 1]
    /\ heap = [o \in {k + 1 : k \in DOMAIN lengths} |->
                  [idx |-> o - 1, length |-> lengths[o - 1]]]

\* A strand of at least two bases on a helix with any registry, not yet
\* split; no command list asked for
SplitInit ==
    /\ baseIdxLow \in PartIdx
    /\ baseIdxHigh \in PartIdx
    /\ baseIdxLow < baseIdxHigh
    /\ \E lengths \in Registries : HasRegistry(lengths)
    /\ undoStack = <<>>
    /\ undoIndex = 0
    /\ snapshots = <<Observed(Current)>>
    /\ strandList = <<>>
    /\ isDrawn5to3 = TRUE
    /\ commandLists = [self \in {1, 2} |->
                          [status |-> "none", commands |-> <<>>]]
    /\ signals = <<>>
    /\ error = "none"
    /\ lastOp = "init"
    /\ returned = None
    /\ SeqIdle /\ GenIdle /\ CallIdle

SplitNext ==
    \/ \E idx \in PartIdx : CallSplit(idx)
    \/ \E self \in {1, 2} : CallGetRemoveInsertionCommandsAfterSplit(self)
    \/ \E self \in {1, 2} : CallExecCommandList(self)

SplitSpec == SplitInit /\ [][SplitNext]_vars

---------------------------------------------------------------------------
(* generator3pStrand: the iteration along the 3' connections of the        *)
(* strands of a part                                                       *)

\* The strands of the part
GenStrands == 1..3

\* Every way the _strand3p of the strands can be set (setConnection3p
\* takes any strand or None)
Connections3p == [GenStrands -> GenStrands \cup {NoStrand}]

\* The yields the model keeps of one iteration: one more than there are
\* strands, so the record of an iteration that ends is complete
YieldsKept == Cardinality(GenStrands) + 1

\* The frame of generator3pStrand called on self, before the loop
generator3pStrand(self) ==
    [self |-> self, node |-> self, originalCount |-> 0, pc |-> "while"]

\* Mutant: the strand just yielded is compared with self.
generator3pStrand_resume_countsYielded(g) ==
    LET node == strand3p[g.node]
    IN  [g EXCEPT !.node = node,
                  !.originalCount = IF g.node = g.self THEN @ + 1 ELSE @,
                  !.pc = "while"]

\* The frame g, suspended at its yield, resumed up to the loop condition
generator3pStrand_resume(g) ==
    LET node == strand3p[g.node]
    IN  [g EXCEPT !.node = node,
                  !.originalCount = IF node = g.self THEN @ + 1 ELSE @,
                  !.pc = "while"]

GenFrame ==
    UNCHANGED <<strandVars, stackVars, setVars, sequence, commandLists,
                strand3p, callVars>>

CallGenerator3pStrand(self) ==
    /\ gen.pc = "none"
    /\ gen' = generator3pStrand(self)
    /\ returned' = <<>>
    /\ lastOp' = "generator3pStrand"
    /\ signals' = <<>>
    /\ error' = "none"
    /\ GenFrame

\* The loop condition holds: the generator yields node and is suspended
Generator3pStrandYield ==
    /\ gen.pc = "while"
    /\ gen.node # NoStrand
    /\ gen.originalCount = 0
    /\ gen' = [gen EXCEPT !.pc = "yield"]
    /\ returned' = IF Len(returned) < YieldsKept
                   THEN Append(returned, gen.node)
                   ELSE returned
    /\ UNCHANGED <<lastOp, signals, error>>
    /\ GenFrame

\* The next strand is asked for: the generator goes on after its yield
Generator3pStrandResume ==
    /\ gen.pc = "yield"
    /\ gen' = generator3pStrand_resume(gen)
    /\ UNCHANGED <<returned, lastOp, signals, error>>
    /\ GenFrame

\* The loop condition fails: the generator is exhausted
Generator3pStrandReturn ==
    /\ gen.pc = "while"
    /\ ~(gen.node # NoStrand /\ gen.originalCount = 0)
    /\ gen' = [gen EXCEPT !.pc = "done"]
    /\ UNCHANGED <<returned, lastOp, signals, error>>
    /\ GenFrame

\* Strands with any 3' connections, no generator made yet
GenInit ==
    /\ strand3p \in Connections3p
    /\ gen = NoGenerator
    /\ signals = <<>>
    /\ error = "none"
    /\ lastOp = "init"
    /\ returned = None
    /\ EditIdle /\ StackIdle /\ SeqIdle /\ SetIdle /\ SplitIdle /\ CallIdle

GenNext ==
    \/ \E self \in GenStrands : CallGenerator3pStrand(self)
    \/ Generator3pStrandYield
    \/ Generator3pStrandResume
    \/ Generator3pStrandReturn

\* The loop that iterates over the generator asks for the next strand for
\* as long as the generator yields one.
GenSpec == GenInit /\ [][GenNext]_vars /\ WF_vars(GenNext)

---------------------------------------------------------------------------
(* setSequence on a strand with any indices and any registry               *)

\* The sequence strings a caller passes, besides None
Texts == {<<>>, <<"A">>, <<"A", "C">>, <<"A", "C", "G">>,
          <<"A", "C", "G", "T">>}

\* Python's reading of a slice index i on a string of n characters: a
\* negative index counts from the end, and either is kept within 0..n
sliceIndex(i, n) ==
    IF i < 0 THEN (IF n + i < 0 THEN 0 ELSE n + i)
    ELSE (IF i > n THEN n ELSE i)

\* Python's s[start:stop]
slice(s, start, stop) ==
    SubSeq(s, sliceIndex(start, Len(s)) + 1, sliceIndex(stop, Len(s)))

\* Mutant: the whole string is stored and returned as used.
setSequence_wholeString(sequenceString) ==
    IF sequenceString = None
    THEN [sequence |-> None, returned |-> <<None, None>>]
    ELSE [sequence |-> sequenceString,
          returned |-> <<sequenceString, <<>> >>]

\* setSequence(sequenceString): the _sequence it stores and the pair it
\* returns
setSequence(sequenceString) ==
    IF sequenceString = None
    THEN [sequence |-> None, returned |-> <<None, None>>]
    ELSE LET len  == totalLength
             temp == slice(sequenceString, 0, len)
         IN  [sequence |-> temp,
              returned |-> <<temp, slice(sequenceString, len,
                                         Len(sequenceString))>>]

CallSetSequence(sequenceString) ==
    /\ sequence' = setSequence(sequenceString).sequence
    /\ returned' = setSequence(sequenceString).returned
    /\ lastOp' = "setSequence"
    /\ signals' = <<>>
    /\ error' = "none"
    /\ UNCHANGED <<strandVars, stackVars, setVars, genVars, commandLists,
                 callVars>>

\* A strand with any pair of indices (resize stores the pair it is given)
\* on a helix with any registry, no sequence applied yet
SeqInit ==
    /\ baseIdxLow \in PartIdx
    /\ baseIdxHigh \in PartIdx
    /\ \E lengths \in Registries : HasRegistry(lengths)
    /\ sequence = None
    /\ signals = <<>>
    /\ error = "none"
    /\ lastOp = "init"
    /\ returned = None
    /\ StackIdle /\ SetIdle /\ GenIdle /\ SplitIdle /\ CallIdle

SeqNext ==
    \/ \E sequenceString \in Texts : CallSetSequence(sequenceString)
    \/ CallSetSequence(None)

SeqSpec == SeqInit /\ [][SeqNext]_vars

---------------------------------------------------------------------------
(* The base predicates of the legacy decoder                               *)
(* (src/model/io/legacydecoder.py).  A base of the legacy format names the *)
(* helix and index of its 5' and of its 3' neighbour, -1 for none.         *)

StrandTypes == {"Scaffold", "Staple"}

\* The helix numbers of a base: two even helices and an odd one
VhNums == {0, 1, 2}

\* The sentinel of the legacy format: no neighbour
NoBase == -1

\* The base indices the predicates are asked about
BaseIdxs == {1, 10}

\* The helix and the index a neighbour entry holds
NeighborVhs == VhNums \cup {NoBase}

NeighborIdxs == {NoBase, 0, 1, 2, 9, 10, 11, 15}

\* A base and its two neighbour entries
Bases ==
    [strandType : StrandTypes, vhNum : VhNums, baseIdx : BaseIdxs,
     fiveVH : NeighborVhs, fiveIdx : NeighborIdxs,
     threeVH : NeighborVhs, threeIdx : NeighborIdxs]

\* Mutant: a staple is read with the offset of a scaffold.
isSegmentStartOrEnd_scaffoldOffset(strandType, vhNum, baseIdx, fiveVH, fiveIdx, threeVH, threeIdx) ==
    \/ fiveVH = vhNum /\ threeVH # vhNum
    \/ fiveVH # vhNum /\ threeVH = vhNum
    \/ vhNum % 2 = 0 /\ fiveVH = vhNum /\ fiveIdx # baseIdx - 1
    \/ vhNum % 2 = 0 /\ threeVH = vhNum /\ threeIdx # baseIdx + 1
    \/ vhNum % 2 = 1 /\ fiveVH = vhNum /\ fiveIdx # baseIdx + 1
    \/ vhNum % 2 = 1 /\ threeVH = vhNum /\ threeIdx # baseIdx - 1
    \/ fiveVH = -1 /\ threeVH # -1
    \/ fiveVH # -1 /\ threeVH = -1

isSegmentStartOrEnd(strandType, vhNum, baseIdx, fiveVH, fiveIdx, threeVH, threeIdx) ==
    LET offset == IF strandType = "Scaffold" THEN 1 ELSE -1
    IN  IF fiveVH = vhNum /\ threeVH # vhNum THEN TRUE
        ELSE IF fiveVH # vhNum /\ threeVH = vhNum THEN TRUE
        ELSE IF vhNum % 2 = 0 /\ fiveVH = vhNum
                /\ fiveIdx # baseIdx - offset THEN TRUE
        ELSE IF vhNum % 2 = 0 /\ threeVH = vhNum
                /\ threeIdx # baseIdx + offset THEN TRUE
        ELSE IF vhNum % 2 = 1 /\ fiveVH = vhNum
                /\ fiveIdx # baseIdx + offset THEN TRUE
        ELSE IF vhNum % 2 = 1 /\ threeVH = vhNum
                /\ threeIdx # baseIdx - offset THEN TRUE
        ELSE IF fiveVH = -1 /\ threeVH # -1 THEN TRUE
        ELSE IF fiveVH # -1 /\ threeVH = -1 THEN TRUE
        ELSE FALSE

\* Mutant: a 3' neighbour on the own helix is never a crossover.
is3primeXover_otherHelixOnly(strandType, vhNum, baseIdx, threeVH, threeIdx) ==
    IF threeVH = -1 THEN FALSE
    ELSE vhNum # threeVH

is3primeXover(strandType, vhNum, baseIdx, threeVH, threeIdx) ==
    IF threeVH = -1 THEN FALSE
    ELSE IF vhNum # threeVH THEN TRUE
    ELSE LET offset == IF strandType = "Scaffold" THEN 1 ELSE -1
         IN  IF vhNum % 2 = 0 /\ threeVH = vhNum
                /\ threeIdx # baseIdx + offset THEN TRUE
             ELSE IF vhNum % 2 = 1 /\ threeVH = vhNum
                     /\ threeIdx # baseIdx - offset THEN TRUE
             ELSE FALSE

DecodeFrame ==
    UNCHANGED <<strandVars, stackVars, setVars, genVars, sequence,
                commandLists, callVars>>

\* isSegmentStartOrEnd on the base held in args
CallIsSegmentStartOrEnd ==
    /\ returned' = isSegmentStartOrEnd(args.strandType, args.vhNum,
                                       args.baseIdx, args.fiveVH,
                                       args.fiveIdx, args.threeVH,
                                       args.threeIdx)
    /\ lastOp' = "isSegmentStartOrEnd"
    /\ signals' = <<>>
    /\ error' = "none"
    /\ DecodeFrame

\* is3primeXover on the base held in args
CallIs3primeXover ==
    /\ returned' = is3primeXover(args.strandType, args.vhNum, args.baseIdx,
                                 args.threeVH, args.threeIdx)
    /\ lastOp' = "is3primeXover"
    /\ signals' = <<>>
    /\ error' = "none"
    /\ DecodeFrame

\* No strand is edited: the decoder is reading a base of a file
DecodeInit ==
    /\ args \in Bases
    /\ strandSet = <<>>
    /\ signals = <<>>
    /\ error = "none"
    /\ lastOp = "init"
    /\ returned = None
    /\ EditIdle /\ StackIdle /\ SeqIdle /\ SetIdle /\ GenIdle /\ SplitIdle

DecodeNext ==
    \/ CallIsSegmentStartOrEnd
    \/ CallIs3primeXover

DecodeSpec == DecodeInit /\ [][DecodeNext]_vars

---------------------------------------------------------------------------
(* The connections of the strands of a StrandSet as the accessors bound    *)
(* in __init__ read and write them, the StrandSet a strand refers to, and  *)
(* getPreDecoratorIdxList                                                  *)

\* A StrandSet as a strand sees it: the direction it is drawn in
StrandSets == [isDrawn5to3 : BOOLEAN]

\* Strand.isDrawn5to3(): asked of the StrandSet the strand refers to now
Strand_isDrawn5to3(self) == strandSet[self].isDrawn5to3

setStrandSet(self, newStrandSet) ==
    [strandSet EXCEPT ![self] = newStrandSet]

setConnection3p(self, strand) ==
    [strandList EXCEPT ![self].strand3p = strand]

setConnection5p(self, strand) ==
    [strandList EXCEPT ![self].strand5p = strand]

\* Bound in __init__ from the StrandSet's direction
setConnectionLow(self, strand) ==
    IF isDrawn5to3 THEN setConnection5p(self, strand)
    ELSE setConnection3p(self, strand)

setConnectionHigh(self, strand) ==
    IF isDrawn5to3 THEN setConnection3p(self, strand)
    ELSE setConnection5p(self, strand)

\* Python's range(a, b)
range(a, b) == [i \in 1..(b - a) |-> a + i - 1]

\* Python's list.remove(x) on the list ret of a call in state r: the first
\* x is taken out, ValueError if there is none
remove(r, x) ==
    IF r.error # "none" THEN r
    ELSE IF \A i \in DOMAIN r.ret : r.ret[i] # x
    THEN [r EXCEPT !.error = "ValueError"]
    ELSE LET first == CHOOSE i \in DOMAIN r.ret :
                         /\ r.ret[i] = x
                         /\ \A j \in 1..(i - 1) : r.ret[j] # x
         IN  [r EXCEPT !.ret = SubSeq(@, 1, first - 1)
                                   \o SubSeq(@, first + 1, Len(@))]

\* x in ret
in(x, ret) == \E i \in DOMAIN ret : ret[i] = x

\* getPreDecoratorIdxList(): the list it has built and the exception that
\* ended it
getPreDecoratorIdxList(self) ==
    LET s  == strandList[self]
        r0 == [ret |-> range(s.low, s.high + 1), error |-> "none"]
        r1 == IF connectionLow(self) # None
              THEN LET r == remove(r0, s.low)
                   IN  IF in(s.low + 1, r.ret) THEN remove(r, s.low + 1)
                       ELSE r
              ELSE r0
        r2 == IF r1.error = "none" /\ connectionHigh(self) # None
              THEN LET r == remove(r1, s.high)
                   IN  IF in(s.high - 1, r.ret) THEN remove(r, s.high - 1)
                       ELSE r
              ELSE r1
    IN  r2

ConnFrame ==
    UNCHANGED <<strandVars, stackVars, isDrawn5to3, sequence, genVars,
                commandLists, signals>>

CallSetStrandSet(self, newStrandSet) ==
    /\ strandSet' = setStrandSet(self, newStrandSet)
    /\ args' = <<self, newStrandSet>>
    /\ lastOp' = "setStrandSet"
    /\ error' = "none"
    /\ returned' = None
    /\ UNCHANGED strandList
    /\ ConnFrame

CallSetConnectionLow(self, strand) ==
    /\ strandList' = setConnectionLow(self, strand)
    /\ args' = <<self, strand>>
    /\ lastOp' = "setConnectionLow"
    /\ error' = "none"
    /\ returned' = None
    /\ UNCHANGED strandSet
    /\ ConnFrame

CallSetConnectionHigh(self, strand) ==
    /\ strandList' = setConnectionHigh(self, strand)
    /\ args' = <<self, strand>>
    /\ lastOp' = "setConnectionHigh"
    /\ error' = "none"
    /\ returned' = None
    /\ UNCHANGED strandSet
    /\ ConnFrame

CallGetPreDecoratorIdxList(self) ==
    LET r == getPreDecoratorIdxList(self)
    IN  /\ returned' = IF r.error = "none" THEN r.ret ELSE None
        /\ error' = r.error
        /\ args' = <<self>>
        /\ lastOp' = "getPreDecoratorIdxList"
        /\ UNCHANGED <<strandList, strandSet>>
        /\ ConnFrame

\* The strands of a StrandSet as their constructor leaves them: no
\* connection, each referring to the StrandSet it was built in
ConnInit ==
    /\ strandList \in StrandLists
    /\ \A self \in DOMAIN strandList :
          strandList[self].strand5p = None /\ strandList[self].strand3p = None
    /\ isDrawn5to3 \in BOOLEAN
    /\ strandSet = [self \in DOMAIN strandList |->
                      [isDrawn5to3 |-> isDrawn5to3]]
    /\ args = <<>>
    /\ signals = <<>>
    /\ error = "none"
    /\ lastOp = "init"
    /\ returned = None
    /\ EditIdle /\ StackIdle /\ SeqIdle /\ GenIdle /\ SplitIdle

ConnNext ==
    \/ \E self \in DOMAIN strandList, newStrandSet \in StrandSets :
           CallSetStrandSet(self, newStrandSet)
    \/ \E self \in DOMAIN strandList, strand \in {None, Partner} :
           CallSetConnectionLow(self, strand)
    \/ \E self \in DOMAIN strandList, strand \in {None, Partner} :
           CallSetConnectionHigh(self, strand)
    \/ \E self \in DOMAIN strandList : CallGetPreDecoratorIdxList(self)

ConnSpec == ConnInit /\ [][ConnNext]_vars

---------------------------------------------------------------------------
(* The sequence of a strand read back and set from a partner strand:       *)
(* getSequenceList and setComplimentSequence.  A string is a sequence of   *)
(* characters; the strand is (baseIdxLow, baseIdxHigh), drawn as           *)
(* isDrawn5to3 says.                                                       *)

\* The character setComplimentSequence fills with and strip() removes
Blank == " "

\* ''.join([' ' for x in range(n)])
RECURSIVE blanks(_)
blanks(n) == IF n <= 0 THEN <<>> ELSE Append(blanks(n - 1), Blank)

\* s[::-1]
RECURSIVE reversed(_)
reversed(s) == IF s = <<>> THEN <<>> ELSE Append(reversed(Tail(s)), Head(s))

\* s[start:stop] = v on an array: the slice is replaced by v, an empty
\* slice (stop before start) lies at start
setSlice(s, start, stop, v) ==
    LET i == sliceIndex(start, Len(s))
        j == IF sliceIndex(stop, Len(s)) < i THEN i
             ELSE sliceIndex(stop, Len(s))
    IN  SubSeq(s, 1, i) \o v \o SubSeq(s, j + 1, Len(s))

\* len(s.strip()) == 0
isBlank(s) == \A i \in DOMAIN s : s[i] = Blank

\* util.overlap(x, y, a, b): the indices common to [x, y] and [a, b], as
\* their lowest and highest; lowest above highest when there are none
overlap(x, y, a, b) ==
    <<IF x < a THEN a ELSE x, IF y < b THEN y ELSE b>>

\* Mutant: the characters of an insertion are not stepped over.
RECURSIVE getSequenceList_for_staysAtOffset(_, _, _)
getSequenceList_for_staysAtOffset(ins, seq, acc) ==
    IF ins = <<>> THEN acc
    ELSE LET insertion    == Head(ins)
             iLength      == heap[insertion].length
             index        == heap[insertion].idx
             offset0      == index + 1 - baseIdxLow + acc.lengthSoFar
             offset       == IF iLength < 0 THEN offset0 - 1 ELSE offset0
             seqItem0     == slice(seq, acc.offsetLast, offset)
             seqItem      == IF iLength < 0 THEN Append(seqItem0, Blank)
                             ELSE seqItem0
         IN  getSequenceList_for_staysAtOffset(Tail(ins), seq,
                 [offsetLast |-> offset,
                  lengthSoFar |-> acc.lengthSoFar + iLength,
                  seqList |-> Append(acc.seqList,
                                     <<index, <<seqItem, <<>> >> >>)])

\* The loop of getSequenceList over the insertions ins, from the loop
\* variables in acc
RECURSIVE getSequenceList_for(_, _, _)
getSequenceList_for(ins, seq, acc) ==
    IF ins = <<>> THEN acc
    ELSE LET insertion    == Head(ins)
             iLength      == heap[insertion].length
             index        == heap[insertion].idx
             offset0      == index + 1 - baseIdxLow + acc.lengthSoFar
             offset       == IF iLength < 0 THEN offset0 - 1 ELSE offset0
             seqItem0     == slice(seq, acc.offsetLast, offset)
             seqItem      == IF iLength < 0 THEN Append(seqItem0, Blank)
                             ELSE seqItem0
             offsetLast   == IF iLength < 0 THEN offset ELSE offset + iLength
             seqInsertion == slice(seq, offset, offsetLast)
         IN  getSequenceList_for(Tail(ins), seq,
                 [offsetLast |-> offsetLast,
                  lengthSoFar |-> acc.lengthSoFar + iLength,
                  seqList |-> Append(acc.seqList,
                                     <<index, <<seqItem, seqInsertion>> >>)])

\* Mutant: the strings are left in low-to-high order for either direction.
getSequenceList_lowToHigh ==
    IF sequence = None THEN [seqList |-> None, error |-> "TypeError"]
    ELSE LET seq   == IF isDrawn5to3 THEN sequence ELSE reversed(sequence)
             tL    == totalLength
             loop  == getSequenceList_for(
                          insertionsOnStrand(baseIdxLow, baseIdxHigh), seq,
                          [offsetLast |-> 0, lengthSoFar |-> 0,
                           seqList |-> <<>>])
         IN  [seqList |->
                  Append(loop.seqList,
                         <<baseIdxLow + tL,
                           <<slice(seq, loop.offsetLast, tL), <<>> >> >>),
              error |-> "none"]

\* getSequenceList(): the list it returns and the exception that ended it
\* (a strand without a sequence has None sliced)
getSequenceList ==
    IF sequence = None THEN [seqList |-> None, error |-> "TypeError"]
    ELSE LET seq   == IF isDrawn5to3 THEN sequence ELSE reversed(sequence)
             tL    == totalLength
             loop  == getSequenceList_for(
                          insertionsOnStrand(baseIdxLow, baseIdxHigh), seq,
                          [offsetLast |-> 0, lengthSoFar |-> 0,
                           seqList |-> <<>>])
             list  == Append(loop.seqList,
                             <<baseIdxLow + tL,
                               <<slice(seq, loop.offsetLast, tL), <<>> >> >>)
         IN  [seqList |->
                  IF isDrawn5to3 THEN list
                  ELSE [i \in 1..Len(list) |->
                           <<list[i][1], <<reversed(list[i][2][1]),
                                           reversed(list[i][2][2])>> >>],
              error |-> "none"]

\* setComplimentSequence(sequenceString, strand): the _sequence it stores
\* and returns; strand is the partner, a strand of the same helix
setComplimentSequence(sequenceString, strand) ==
    LET sLowIdx   == baseIdxLow
        sHighIdx  == baseIdxHigh
        cLowIdx   == strand.low
        cHighIdx  == strand.high
        o         == overlap(sLowIdx, sHighIdx, cLowIdx, cHighIdx)
        overlapLow  == o[1]
        overlapHigh == o[2]
        tL        == totalLength
        useSeq    == IF sequenceString = None THEN blanks(tL)
                     ELSE IF isDrawn5to3 THEN reversed(sequenceString)
                     ELSE sequenceString
        tempSelf  == IF sequence = None THEN blanks(tL)
                     ELSE IF isDrawn5to3 THEN sequence
                     ELSE reversed(sequence)
        a         == IF sLowIdx < overlapLow
                     THEN insertionLengthBetweenIdxs(sLowIdx, overlapLow - 1)
                     ELSE 0
        b         == insertionLengthBetweenIdxs(overlapLow, overlapHigh)
        c         == insertionLengthBetweenIdxs(cLowIdx, overlapLow)
        start     == overlapLow - cLowIdx + c
        end       == start + b + overlapHigh - overlapLow + 1
        spliced   == setSlice(tempSelf, overlapLow - sLowIdx + a,
                              overlapHigh - sLowIdx + 1 + a + b,
                              slice(useSeq, start, end))
        stored    == IF isDrawn5to3 THEN spliced ELSE reversed(spliced)
    IN  IF isBlank(stored) THEN None ELSE stored

ListFrame ==
    UNCHANGED <<strandVars, stackVars, setVars, genVars, commandLists,
                callVars>>

CallGetSequenceList ==
    /\ returned' = getSequenceList.seqList
    /\ error' = getSequenceList.error
    /\ lastOp' = "getSequenceList"
    /\ signals' = <<>>
    /\ UNCHANGED sequence
    /\ ListFrame

CallSetComplimentSequence(sequenceString, strand) ==
    /\ sequence' = setComplimentSequence(sequenceString, strand)
    /\ returned' = setComplimentSequence(sequenceString, strand)
    /\ lastOp' = "setComplimentSequence"
    /\ signals' = <<>>
    /\ error' = "none"
    /\ ListFrame

\* The strings a caller holds for a partner strand
PartnerTexts ==
    Texts \cup {<<"G", "T", "A", "C">>, <<"T", "G">>}

\* A strand with any pair of indices, drawn in either direction, on a
\* helix with any registry, no sequence applied yet
ListInit ==
    /\ baseIdxLow \in PartIdx
    /\ baseIdxHigh \in PartIdx
    /\ \E lengths \in Registries : HasRegistry(lengths)
    /\ isDrawn5to3 \in BOOLEAN
    /\ strandList = <<>>
    /\ sequence = None
    /\ signals = <<>>
    /\ error = "none"
    /\ lastOp = "init"
    /\ returned = None
    /\ StackIdle /\ GenIdle /\ SplitIdle /\ CallIdle

ListNext ==
    \/ \E sequenceString \in Texts : CallSetSequence(sequenceString)
    \/ CallSetSequence(None)
    \/ CallGetSequenceList

ListSpec == ListInit /\ [][ListNext]_vars

---------------------------------------------------------------------------
(* setComplimentSequence on a strand with any indices and direction, on a  *)
(* helix without insertions, with or without a sequence from setSequence   *)

\* The partner strands: the strands of the opposite StrandSet of the helix
Partners == {s \in [low : PartIdx, high : PartIdx] : s.low <= s.high}

\* The partner strands that have a base index in common with the strand
PartnersOver ==
    {s \in Partners : s.low <= baseIdxHigh /\ baseIdxLow <= s.high}

\* The caller pairs the strand with the strands that lie over it
CompNext ==
    \/ \E sequenceString \in Texts : CallSetSequence(sequenceString)
    \/ CallSetSequence(None)
    \/ \E sequenceString \in PartnerTexts, strand \in PartnersOver :
           CallSetComplimentSequence(sequenceString, strand)
    \/ \E strand \in PartnersOver : CallSetComplimentSequence(None, strand)

\* A strand of any interval, drawn in either direction, on a helix without
\* insertions, no sequence applied yet
CompInit ==
    /\ baseIdxLow \in PartIdx
    /\ baseIdxHigh \in PartIdx
    /\ baseIdxLow <= baseIdxHigh
    /\ insertions = EmptyDict
    /\ heap = EmptyDict
    /\ isDrawn5to3 \in BOOLEAN
    /\ strandList = <<>>
    /\ sequence = None
    /\ signals = <<>>
    /\ error = "none"
    /\ lastOp = "init"
    /\ returned = None
    /\ StackIdle /\ GenIdle /\ SplitIdle /\ CallIdle

CompSpec == CompInit /\ [][CompNext]_vars

---------------------------------------------------------------------------
(* The sequence of the strand of Spec under the calls that set it and the  *)
(* calls that change the strand's total length.  The calls pass            *)
(* useUndoStack = False, and changeInsertion a length other than 0: no     *)
(* command is pushed on the undo stack.                                    *)

SeqEditInit ==
    /\ EditIdle
    /\ isDrawn5to3 \in BOOLEAN
    /\ strandList = <<>>
    /\ undoStack = <<>>
    /\ undoIndex = 0
    /\ snapshots = <<Observed(Current)>>
    /\ signals = <<>>
    /\ error = "none"
    /\ lastOp = "init"
    /\ returned = None
    /\ SeqIdle /\ GenIdle /\ SplitIdle /\ CallIdle

\* The longest stored sequence a further setComplimentSequence is followed
\* from
MaxSequence == MaxBaseIdx + 2

\* The partner strands within the part of Spec
EditPartners == {s \in Partners : s.high <= MaxBaseIdx}

\* The strings the caller of the edited strand holds for it and for a
\* partner
EditTexts == {<<"A", "C">>, <<"A", "C", "G", "T">>}

EditPartnerTexts == {<<"G", "T">>}

SeqEditNext ==
    \/ \E sequenceString \in EditTexts : CallSetSequence(sequenceString)
    \/ CallSetSequence(None)
    \/ /\ sequence = None \/ Len(sequence) <= MaxSequence
       /\ \E sequenceString \in EditPartnerTexts, strand \in EditPartners :
              CallSetComplimentSequence(sequenceString, strand)
    \/ /\ sequence = None \/ Len(sequence) <= MaxSequence
       /\ \E strand \in EditPartners : CallSetComplimentSequence(None, strand)
    \/ \E newIdxs \in Idx \X Idx : CallResize(newIdxs, FALSE)
    \/ \E idx \in Idx, len \in LengthArgs : CallAddInsertion(idx, len, FALSE)
    \/ \E idx \in Idx : CallRemoveInsertion(idx, FALSE)
    \/ \E idx \in Idx, len \in LengthArgs \ {0} :
           CallChangeInsertion(idx, len, FALSE)

SeqEditSpec == SeqEditInit /\ [][SeqEditNext]_vars

---------------------------------------------------------------------------
(* Vocabulary of the properties *)

InRange(i) == baseIdxLow <= i /\ i <= baseIdxHigh

StoredLength(i) == heap[insertions[i]].length

IsResized(s) == s.sig = "strandResizedSignal"

ResizedSignals(sigs) == SelectSeq(sigs, IsResized)

\* The command an undo has just reverted
Undone == undoStack[undoIndex + 1]

RECURSIVE RegistrySum(_)
RegistrySum(S) ==
    IF S = {} THEN 0
    ELSE LET i == CHOOSE x \in S : TRUE
         IN  StoredLength(i) + RegistrySum(S \ {i})

---------------------------------------------------------------------------
(* C1: in every reachable state totalLength() equals                       *)
(* (highIdx - lowIdx + 1) plus the sum of the lengths of the registry      *)
(* insertions whose index lies in [lowIdx, highIdx], a skip counting -1.   *)
C1_TotalLength ==
    totalLength = (baseIdxHigh - baseIdxLow + 1)
                    + RegistrySum({i \in DOMAIN insertions : InRange(i)})

\* A strand resized so that an insertion of length 2 it had is outside its
\* interval, and no longer counted
C1_Witness ==
    /\ lastOp = "resize"
    /\ \E j \in DOMAIN insertions : ~InRange(j) /\ StoredLength(j) = 2
    /\ baseIdxLow <= baseIdxHigh
    /\ totalLength = length

(* C2: lowIdx <= highIdx holds in every reachable state, whatever newIdxs  *)
(* the resize calls pass.                                                  *)
C2_LowLeqHigh == baseIdxLow <= baseIdxHigh

(* C2, amended: lowIdx <= highIdx holds in every reachable state in which  *)
(* every resize of the undo history was passed newIdxs with                *)
(* newIdxs[0] <= newIdxs[1].                                               *)
C2_LowLeqHighOrdered ==
    (\A n \in DOMAIN undoStack :
        undoStack[n].type = "Resize"
            => undoStack[n].newIdxs[1] <= undoStack[n].newIdxs[2])
        => baseIdxLow <= baseIdxHigh

\* Two resizes with ordered indices, the second undone
C2_Witness ==
    /\ lastOp = "undo"
    /\ Len(undoStack) = 2
    /\ \A n \in DOMAIN undoStack :
          /\ undoStack[n].type = "Resize"
          /\ undoStack[n].newIdxs[1] <= undoStack[n].newIdxs[2]
          /\ undoStack[n].newIdxs # undoStack[n].oldIndices
    /\ undoIndex = 1

(* C3: with k commands of the history applied, the strand's indices and    *)
(* the registry (indices and lengths) are exactly what they were when the  *)
(* k-th command was first applied (k = 0: at construction); so undoing     *)
(* every command restores the initial state and redoing every command the  *)
(* state after the original application.                                   *)
C3_UndoRedoExact == Observed(Current) = snapshots[undoIndex + 1]

\* An insertion added and its length changed, both undone
C3_Witness ==
    /\ lastOp = "undo"
    /\ undoIndex = 0
    /\ Len(undoStack) = 2
    /\ undoStack[1].type = "AddInsertion"
    /\ undoStack[2].type = "ChangeInsertion"
    /\ undoStack[2].newLength # undoStack[2].oldLength

(* C4: undoing a Resize restores the exact (lowIdx, highIdx) of before it, *)
(* and both the resize and its undo emit exactly one strandResizedSignal,  *)
(* carrying the strand and its then-current indices.                       *)
C4_ResizeUndo ==
    /\ lastOp = "resize" =>
          /\ idxs = undoStack[undoIndex].newIdxs
          /\ ResizedSignals(signals) =
                <<[sig |-> "strandResizedSignal", strand |-> Self,
                   idxs |-> idxs]>>
    /\ (lastOp = "undo" /\ Undone.type = "Resize") =>
          /\ idxs = snapshots[undoIndex + 1].idxs
          /\ ResizedSignals(signals) =
                <<[sig |-> "strandResizedSignal", strand |-> Self,
                   idxs |-> idxs]>>

\* A resize that changed the indices has been undone
C4_Witness ==
    /\ lastOp = "undo"
    /\ Undone.type = "Resize"
    /\ Undone.newIdxs # idxs
    /\ Undone.oldIndices = idxs

(* C5: every insertion of the registry (each was added through the strand) *)
(* has its index within the strand's current [lowIdx, highIdx], also after *)
(* the strand is resized to a smaller interval.                            *)
C5_InsertionsInRange == \A i \in DOMAIN insertions : InRange(i)

(* C6: no insertion stored in the registry has length 0: every stored      *)
(* length is > 0 or exactly -1.                                            *)
C6_NoZeroLength ==
    \A i \in DOMAIN insertions : StoredLength(i) > 0 \/ StoredLength(i) = -1

(* C7: addInsertion(idx, length) with idx inside the interval and no       *)
(* insertion at idx stores at idx an insertion of length -1 for a negative *)
(* length and of the given length for a positive one.                      *)
C7_AddNormalizes ==
    [][lastOp' = "addInsertion" =>
        \A idx \in Idx, len \in LengthArgs \ {0} :
            (/\ InRange(idx)
             /\ idx \notin DOMAIN insertions
             /\ CallAddInsertion(idx, len, TRUE))
            => /\ idx \in DOMAIN insertions'
               /\ heap'[insertions'[idx]].idx = idx
               /\ heap'[insertions'[idx]].length =
                     (IF len < 0 THEN -1 ELSE len)]_vars

\* addInsertion has stored a skip
C7_Witness ==
    /\ lastOp = "addInsertion"
    /\ undoIndex > 0
    /\ undoStack[undoIndex].type = "AddInsertion"
    /\ undoStack[undoIndex].idx \in DOMAIN insertions
    /\ StoredLength(undoStack[undoIndex].idx) = -1

(* C8: addInsertion(idx, length) with idx outside [lowIdx, highIdx] or an  *)
(* insertion already at idx changes nothing: the registry and the stored   *)
(* lengths stay, no signal is emitted, no command is recorded.             *)
C8_AddNoOp ==
    [][lastOp' = "addInsertion" =>
        \A idx \in Idx, len \in LengthArgs :
            (/\ ~InRange(idx) \/ idx \in DOMAIN insertions
             /\ CallAddInsertion(idx, len, TRUE))
            => /\ UNCHANGED <<baseIdxLow, baseIdxHigh, insertions, heap,
                              undoStack, undoIndex>>
               /\ signals' = <<>>]_vars

\* addInsertion called with every index of the part occupied
C8_Witness ==
    /\ lastOp = "addInsertion"
    /\ signals = <<>>
    /\ DOMAIN insertions = Idx
    /\ \A i \in Idx : StoredLength(i) # 0

(* C9: changeInsertion(idx, 0) on an existing insertion inside the         *)
(* interval leaves no insertion at idx, and the undo of the command it     *)
(* recorded brings the insertion back with the length it had.              *)
C9_ChangeToZero ==
    [][/\ lastOp' = "changeInsertion" =>
            \A idx \in Idx :
                (/\ InRange(idx)
                 /\ idx \in DOMAIN insertions
                 /\ CallChangeInsertion(idx, 0, TRUE))
                => /\ idx \notin DOMAIN insertions'
                   /\ undoStack'[undoIndex'].type = "RemoveInsertion"
       /\ (lastOp' = "undo" /\ undoStack[undoIndex].type = "RemoveInsertion")
            => LET c == undoStack[undoIndex]
               IN  /\ c.idx \in DOMAIN insertions'
                   /\ heap'[insertions'[c.idx]].length =
                         snapshots[undoIndex].lengths[c.idx]]_vars

\* changeInsertion(idx, 0) has removed an insertion
C9_Witness ==
    /\ lastOp = "changeInsertion"
    /\ undoIndex > 0
    /\ undoStack[undoIndex].type = "RemoveInsertion"
    /\ undoStack[undoIndex].idx \notin DOMAIN insertions

(* C10: changeInsertion(idx, newLength), newLength # 0, on an existing     *)
(* insertion inside the interval keeps the same Insertion object at idx,   *)
(* sets its length to newLength if positive and to -1 if negative, and     *)
(* changes no other registry entry; its undo restores the old length on    *)
(* the same object.                                                        *)
C10_ChangeInPlace ==
    [][/\ lastOp' = "changeInsertion" =>
            \A idx \in Idx, len \in LengthArgs \ {0} :
                (/\ InRange(idx)
                 /\ idx \in DOMAIN insertions
                 /\ CallChangeInsertion(idx, len, TRUE))
                => /\ insertions' = insertions
                   /\ heap'[insertions[idx]].length =
                         (IF len < 0 THEN -1 ELSE len)
                   /\ \A j \in DOMAIN insertions \ {idx} :
                         heap'[insertions[j]] = heap[insertions[j]]
       /\ (lastOp' = "undo" /\ undoStack[undoIndex].type = "ChangeInsertion")
            => LET c == undoStack[undoIndex]
               IN  /\ insertions' = insertions
                   /\ heap'[insertions[c.idx]].length =
                         snapshots[undoIndex].lengths[c.idx]
                   /\ \A j \in DOMAIN insertions \ {c.idx} :
                         heap'[insertions[j]] = heap[insertions[j]]]_vars

\* changeInsertion has given an insertion another length
C10_Witness ==
    /\ lastOp = "changeInsertion"
    /\ undoIndex > 0
    /\ undoStack[undoIndex].type = "ChangeInsertion"
    /\ undoStack[undoIndex].newLength # undoStack[undoIndex].oldLength
    /\ StoredLength(undoStack[undoIndex].idx) = undoStack[undoIndex].newLength

(* C11: removeInsertion(idx) with idx inside the interval and an insertion *)
(* at idx removes the registry entry at idx and leaves every other entry   *)
(* (object and length) as it was; with no insertion at idx or idx outside  *)
(* the interval it changes nothing, emits nothing and records no command.  *)
C11_RemoveInsertion ==
    [][lastOp' = "removeInsertion" =>
        \A idx \in Idx :
            /\ (/\ InRange(idx) /\ idx \in DOMAIN insertions
                /\ CallRemoveInsertion(idx, TRUE))
               => /\ DOMAIN insertions' = DOMAIN insertions \ {idx}
                  /\ \A j \in DOMAIN insertions' :
                        /\ insertions'[j] = insertions[j]
                        /\ heap'[insertions'[j]] = heap[insertions[j]]
            /\ (/\ ~InRange(idx) \/ idx \notin DOMAIN insertions
                /\ CallRemoveInsertion(idx, TRUE))
               => /\ UNCHANGED <<baseIdxLow, baseIdxHigh, insertions, heap,
                                 undoStack, undoIndex>>
                  /\ signals' = <<>>]_vars

\* removeInsertion has removed the insertion of an index
C11_Witness ==
    /\ lastOp = "removeInsertion"
    /\ undoIndex > 0
    /\ undoStack[undoIndex].type = "RemoveInsertion"
    /\ undoStack[undoIndex].idx \notin DOMAIN insertions

---------------------------------------------------------------------------
(* Vocabulary of the StrandSet properties *)

\* The neighbour the StrandSet reports below idx = lowIdx ends right before it
AdjacentLow(self, idx) ==
    /\ idx = strandList[self].low
    /\ getNeighbors(self)[1] # NoStrand
    /\ strandList[getNeighbors(self)[1]].high + 1 = idx

\* The neighbour the StrandSet reports above idx = highIdx starts right after it
AdjacentHigh(self, idx) ==
    /\ idx = strandList[self].high
    /\ getNeighbors(self)[2] # NoStrand
    /\ strandList[getNeighbors(self)[2]].low - 1 = idx

IsEndpoint(self, idx) ==
    idx = strandList[self].low \/ idx = strandList[self].high

(* C12: merge(idx) at an endpoint idx of the strand hands the strand and   *)
(* a neighbour to mergeStrands exactly when the neighbour on that side     *)
(* exists and its facing endpoint is adjacent to idx, a single-base strand *)
(* with only the high neighbour adjacent included; in every other endpoint *)
(* case nothing is merged and nothing changes.                             *)
C12_MergeWhenAdjacent ==
    [][lastOp' = "merge" =>
        \A self \in DOMAIN strandList, idx \in PartIdx :
            (IsEndpoint(self, idx) /\ CallMerge(self, idx))
            => /\ error' = "none"
               /\ IF AdjacentLow(self, idx) \/ AdjacentHigh(self, idx)
                  THEN \/ /\ AdjacentLow(self, idx)
                          /\ strandList' =
                                mergeStrands(self, getNeighbors(self)[1])
                       \/ /\ AdjacentHigh(self, idx)
                          /\ strandList' =
                                mergeStrands(self, getNeighbors(self)[2])
                  ELSE UNCHANGED strandList]_vars

(* C13: merge(idx) with idx neither lowIdx nor highIdx of the strand       *)
(* raises IndexError and leaves the strand list as it is, whatever the     *)
(* neighbours.                                                             *)
C13_MergeIndexError ==
    [][lastOp' = "merge" =>
        \A self \in DOMAIN strandList, idx \in PartIdx :
            (~IsEndpoint(self, idx) /\ CallMerge(self, idx))
            => /\ error' = "IndexError"
               /\ UNCHANGED strandList]_vars

\* merge has raised IndexError on a list of two adjacent strands, one of
\* them with an inner index
C13_Witness ==
    /\ lastOp = "merge"
    /\ error = "IndexError"
    /\ Len(strandList) = 2
    /\ strandList[1].high + 1 = strandList[2].low
    /\ \E self \in DOMAIN strandList :
          strandList[self].low + 1 < strandList[self].high

(* C17: for every strand and idx, hasXoverAt(idx) is true iff idx is       *)
(* lowIdx and the low-end connection exists or idx is highIdx and the      *)
(* high-end connection exists, a single-base strand with only a low-end    *)
(* connection included.                                                    *)
C17_HasXoverAt ==
    [][lastOp' = "hasXoverAt" =>
        \A self \in DOMAIN strandList, idx \in PartIdx :
            CallHasXoverAt(self, idx)
            => returned' =
                 (\/ idx = strandList[self].low /\ connectionLow(self) # None
                  \/ idx = strandList[self].high
                       /\ connectionHigh(self) # None)]_vars

(* C18: getResizeBounds(idx) returns, for idx = lowIdx, the index after    *)
(* the low neighbour's high end (the part's minimum without a low          *)
(* neighbour) and highIdx - 1; for idx = highIdx, lowIdx + 1 and the index *)
(* before the high neighbour's low end (the part's maximum without a high  *)
(* neighbour); a single-base strand asked at its high end included.        *)
C18_ResizeBounds ==
    [][lastOp' = "getResizeBounds" =>
        \A self \in DOMAIN strandList, idx \in PartIdx :
            CallGetResizeBounds(self, idx)
            => LET lowNeighbor  == getNeighbors(self)[1]
                   highNeighbor == getNeighbors(self)[2]
                   lowBound  == IF lowNeighbor # NoStrand
                                THEN strandList[lowNeighbor].high + 1
                                ELSE minBaseIdx
                   highBound == IF highNeighbor # NoStrand
                                THEN strandList[highNeighbor].low - 1
                                ELSE maxBaseIdx
               IN  /\ idx = strandList[self].low
                        => returned' = <<lowBound, strandList[self].high - 1>>
                   /\ idx = strandList[self].high
                        => returned' = <<strandList[self].low + 1, highBound>>
       ]_vars

(* C19: when every resize moves one end of a strand to an index within the *)
(* bounds getResizeBounds returns for that end's index, the strands of the *)
(* StrandSet never overlap, keep their index order, stay within            *)
(* [minBaseIdx, maxBaseIdx] and keep lowIdx <= highIdx.                    *)
C19_NoOverlap ==
    \A self \in DOMAIN strandList :
        /\ minBaseIdx <= strandList[self].low
        /\ strandList[self].low <= strandList[self].high
        /\ strandList[self].high <= maxBaseIdx
        /\ self > 1 => strandList[self - 1].high < strandList[self].low

---------------------------------------------------------------------------
\* Both halves of the split have returned their commands and the two lists
\* have been executed
SplitCleaned ==
    /\ Len(strandList) = 2
    /\ \A self \in {1, 2} : commandLists[self].status = "executed"

(* C14: after a strand is split and the commands each half returns from    *)
(* getRemoveInsertionCommandsAfterSplit are executed, no execution has     *)
(* failed and each half has exactly the insertions, with their lengths,    *)
(* that the split strand had at the indices of the half's own interval.    *)
C14_SplitKeepsInsertions ==
    SplitCleaned =>
        /\ error = "none"
        /\ \A self \in {1, 2} :
              \A k \in strandList[self].low..strandList[self].high :
                  /\ k \in DOMAIN insertions
                        <=> k \in DOMAIN snapshots[1].lengths
                  /\ k \in DOMAIN insertions
                        => StoredLength(k) = snapshots[1].lengths[k]

---------------------------------------------------------------------------
(* C15: an iteration of generator3pStrand, once started, comes to an end,  *)
(* whatever the 3' connections are: a chain that ends in no connection, a  *)
(* cycle through the starting strand, a chain that runs into a cycle       *)
(* without the starting strand.                                            *)
C15_Terminates == (gen.pc # "none") ~> (gen.pc = "done")

(* C16: an iteration of generator3pStrand that has come to an end has      *)
(* yielded the originating strand first, then each strand's 3' strand in   *)
(* turn, every strand once, up to the strand whose 3' connection is        *)
(* absent (a linear chain) or is the originating strand (a cycle).         *)
C16_YieldsChainOnce ==
    gen.pc = "done" =>
        /\ returned # <<>>
        /\ returned[1] = gen.self
        /\ \A i \in 1..(Len(returned) - 1) :
              returned[i + 1] = strand3p[returned[i]]
        /\ \A i, j \in DOMAIN returned : returned[i] = returned[j] => i = j
        /\ strand3p[returned[Len(returned)]] \in {NoStrand, gen.self}

\* The iteration has ended after a cycle through all the strands
C16_Witness ==
    /\ gen.pc = "done"
    /\ Len(returned) = Cardinality(GenStrands)
    /\ strand3p[returned[Len(returned)]] = gen.self

---------------------------------------------------------------------------
\* What the claim says of setSequence(text) on a string: the first
\* min(len(text), totalLength()) characters are stored and returned as
\* consumed, consumed + remainder is text, consumed is no longer than
\* totalLength()
TakesLeading(text) ==
    LET n == IF Len(text) < totalLength THEN Len(text) ELSE totalLength
    IN  /\ sequence' = SubSeq(text, 1, n)
        /\ returned'[1] = sequence'
        /\ returned'[1] \o returned'[2] = text
        /\ Len(returned'[1]) <= totalLength

(* C20: setSequence(text) stores the first min(len(text), totalLength())   *)
(* characters of text as the sequence and returns (consumed, remainder)    *)
(* with consumed + remainder = text and len(consumed) <= totalLength();    *)
(* setSequence(None) clears the sequence and returns (None, None); the     *)
(* indices and the registry are not changed.                               *)
C20_SetSequence ==
    [][lastOp' = "setSequence" =>
        /\ UNCHANGED <<baseIdxLow, baseIdxHigh, insertions, heap>>
        /\ \A text \in Texts :
              (sequence' # None /\ CallSetSequence(text))
              => TakesLeading(text)
        /\ (sequence' = None /\ CallSetSequence(None))
             => returned' = <<None, None>>]_vars

(* C20, amended: the same, for a strand whose totalLength() is not         *)
(* negative (every strand with lowIdx <= highIdx).                         *)
C20_SetSequenceNonNegative ==
    [][lastOp' = "setSequence" =>
        /\ UNCHANGED <<baseIdxLow, baseIdxHigh, insertions, heap>>
        /\ \A text \in Texts :
              (totalLength >= 0 /\ sequence' # None /\ CallSetSequence(text))
              => TakesLeading(text)
        /\ (sequence' = None /\ CallSetSequence(None))
             => returned' = <<None, None>>]_vars

\* setSequence has cut a string down to the total length of a strand with
\* a skip and an insertion in its interval
C20_Witness ==
    /\ lastOp = "setSequence"
    /\ sequence # None
    /\ baseIdxLow < baseIdxHigh
    /\ \E i, j \in DOMAIN insertions :
          /\ InRange(i) /\ StoredLength(i) = -1
          /\ InRange(j) /\ StoredLength(j) = 2
    /\ Len(sequence) = totalLength
    /\ returned[1] = sequence
    /\ returned[2] # <<>>

---------------------------------------------------------------------------
(* Vocabulary of the decoder properties, on the base held in args *)

\* The neighbour entry names a base (not the sentinel) of another helix
OnOtherHelix(vh) == vh # NoBase /\ vh # args.vhNum

\* The index of the natural 3' neighbour of the base: one up for a scaffold
\* on an even helix, the other way for odd helices and for staples
Natural3p ==
    IF (args.strandType = "Scaffold") <=> (args.vhNum % 2 = 0)
    THEN args.baseIdx + 1 ELSE args.baseIdx - 1

\* The index of the natural 5' neighbour of the base
Natural5p ==
    IF (args.strandType = "Scaffold") <=> (args.vhNum % 2 = 0)
    THEN args.baseIdx - 1 ELSE args.baseIdx + 1

(* C24: isSegmentStartOrEnd returns true for every base whose 5' or 3'     *)
(* neighbour is a base (not the sentinel) of another helix, both           *)
(* neighbours on other helices included; so every base for which           *)
(* is3primeXover is true is a segment start or end.                        *)
C24_XoverIsSegmentEnd ==
    /\ (lastOp = "isSegmentStartOrEnd"
          /\ (OnOtherHelix(args.fiveVH) \/ OnOtherHelix(args.threeVH)))
        => returned = TRUE
    /\ (lastOp = "is3primeXover" /\ returned = TRUE)
        => isSegmentStartOrEnd(args.strandType, args.vhNum, args.baseIdx,
                               args.fiveVH, args.fiveIdx, args.threeVH,
                               args.threeIdx)

(* C25: for a base whose two neighbours are on its own helix,              *)
(* isSegmentStartOrEnd returns false iff the 5' neighbour and the 3'       *)
(* neighbour are at the naturally adjacent indices for the helix parity    *)
(* and the strand type; (Scaffold, helix 2, base 10, 5' = (2, 9),          *)
(* 3' = (2, 11)) gives false and with the 3' index 15 true.                *)
C25_OwnHelixNeighbors ==
    (lastOp = "isSegmentStartOrEnd"
      /\ args.fiveVH = args.vhNum /\ args.threeVH = args.vhNum)
    => /\ returned = FALSE
           <=> (args.fiveIdx = Natural5p /\ args.threeIdx = Natural3p)
       /\ (args.strandType = "Scaffold" /\ args.vhNum = 2
            /\ args.baseIdx = 10 /\ args.fiveIdx = 9)
           => /\ args.threeIdx = 11 => returned = FALSE
              /\ args.threeIdx = 15 => returned = TRUE

\* The example of the claim has been decoded
C25_Witness ==
    /\ lastOp = "isSegmentStartOrEnd"
    /\ args = [strandType |-> "Scaffold", vhNum |-> 2, baseIdx |-> 10,
               fiveVH |-> 2, fiveIdx |-> 9, threeVH |-> 2, threeIdx |-> 11]
    /\ returned = FALSE

(* C26: is3primeXover returns true iff the 3' neighbour is not the         *)
(* sentinel and is on another helix, or on the same helix at an index      *)
(* other than the naturally adjacent one.                                  *)
C26_Is3primeXover ==
    lastOp = "is3primeXover"
    => (returned = TRUE
        <=> /\ args.threeVH # NoBase
            /\ \/ args.threeVH # args.vhNum
               \/ args.threeIdx # Natural3p)

\* A 3' neighbour on the own helix, not adjacent, has been found a crossover
C26_Witness ==
    /\ lastOp = "is3primeXover"
    /\ args.threeVH = args.vhNum
    /\ args.threeIdx # Natural3p
    /\ returned = TRUE

---------------------------------------------------------------------------
\* The indices of the strand's interval without the two at each connected
\* end
PreDecoratorIdxs(self) ==
    LET s == strandList[self]
    IN  (s.low..s.high)
          \ ((IF connectionLow(self) # None THEN {s.low, s.low + 1} ELSE {})
             \cup (IF connectionHigh(self) # None
                   THEN {s.high, s.high - 1} ELSE {}))

(* C27: getPreDecoratorIdxList returns, without an error, exactly the      *)
(* indices of [lowIdx, highIdx] minus lowIdx and lowIdx + 1 when the low   *)
(* end is connected and minus highIdx and highIdx - 1 when the high end is *)
(* connected, for every strand, strands of one and of two bases connected  *)
(* at both ends included.                                                  *)
C27_PreDecoratorIdxList ==
    lastOp = "getPreDecoratorIdxList"
    => /\ error = "none"
       /\ returned = sorted(PreDecoratorIdxs(args[1]))

(* C29: in every reachable state, also after setStrandSet has moved a      *)
(* strand to another StrandSet, connectionLow() reads the 5' connection    *)
(* and connectionHigh() the 3' connection iff the strand's current         *)
(* StrandSet is drawn 5' to 3' (the other way round otherwise), and        *)
(* setConnectionLow/setConnectionHigh write the pointer connectionLow/     *)
(* connectionHigh read.  Which pointer an accessor reads shows where the   *)
(* two pointers differ.                                                    *)
C29_BindingFollowsStrandSet ==
    /\ \A self \in DOMAIN strandList :
          connection5p(self) # connection3p(self)
          => IF Strand_isDrawn5to3(self)
             THEN /\ connectionLow(self) = connection5p(self)
                  /\ connectionHigh(self) = connection3p(self)
             ELSE /\ connectionLow(self) = connection3p(self)
                  /\ connectionHigh(self) = connection5p(self)
    /\ lastOp = "setConnectionLow" => connectionLow(args[1]) = args[2]
    /\ lastOp = "setConnectionHigh" => connectionHigh(args[1]) = args[2]

---------------------------------------------------------------------------
\* The call has emitted one signal, named sig, that carries the strand and
\* the Insertion object the registry now holds at idx
CarriesStored(sig, idx) ==
    /\ idx \in DOMAIN insertions
    /\ signals = <<[sig |-> sig, strand |-> Self,
                    insertion |-> insertions[idx]]>>

\* The call has emitted one strandInsertionRemovedSignal that carries the
\* strand and the bare index idx, which the registry no longer holds
CarriesAbsent(idx) ==
    /\ idx \notin DOMAIN insertions
    /\ signals = <<[sig |-> "strandInsertionRemovedSignal", strand |-> Self,
                    idx |-> idx]>>

\* What a reader finds after command c was applied: the one notification
\* of c and the registry change it describes
NotifiedApply(c) ==
    CASE c.type = "AddInsertion" ->
            CarriesStored("strandInsertionAddedSignal", c.idx)
      [] c.type = "RemoveInsertion" -> CarriesAbsent(c.idx)
      [] c.type = "ChangeInsertion" ->
            CarriesStored("strandInsertionChangedSignal", c.idx)
      [] OTHER -> TRUE

\* The same after command c was undone
NotifiedUndo(c) ==
    CASE c.type = "AddInsertion" -> CarriesAbsent(c.idx)
      [] c.type = "RemoveInsertion" ->
            CarriesStored("strandInsertionAddedSignal", c.idx)
      [] c.type = "ChangeInsertion" ->
            CarriesStored("strandInsertionChangedSignal", c.idx)
      [] OTHER -> TRUE

---------------------------------------------------------------------------
(* Vocabulary of the sequence properties *)

\* The strand has no insertion in its interval
NoInsertionsOnStrand == insertionsOnStrand(baseIdxLow, baseIdxHigh) = <<>>

\* The first n characters of text
FirstChars(text, n) == SubSeq(text, 1, IF Len(text) < n THEN Len(text) ELSE n)

\* The segment texts of a sequence list, one after the other
RECURSIVE SegmentTexts(_)
SegmentTexts(seqList) ==
    IF seqList = <<>> THEN <<>>
    ELSE Head(seqList)[2][1] \o SegmentTexts(Tail(seqList))

(* C21: for a strand with no insertions, drawn in either direction,        *)
(* setSequence(text) followed by getSequenceList gives segment texts that, *)
(* concatenated, are the first totalLength() characters of text.           *)
C21_RoundTrip ==
    [][(lastOp = "setSequence" /\ lastOp' = "getSequenceList"
        /\ sequence # None /\ NoInsertionsOnStrand)
       => \A text \in Texts :
             (setSequence(text).sequence = sequence
              /\ setSequence(text).returned = returned)
             => /\ error' = "none"
                /\ SegmentTexts(returned') = FirstChars(text, totalLength)]_vars

(* C21, amended: the same, for a strand whose totalLength() is not         *)
(* negative (every strand with lowIdx <= highIdx).                         *)
C21_RoundTripNonNegative ==
    [][(lastOp = "setSequence" /\ lastOp' = "getSequenceList"
        /\ sequence # None /\ NoInsertionsOnStrand /\ totalLength >= 0)
       => \A text \in Texts :
             (setSequence(text).sequence = sequence
              /\ setSequence(text).returned = returned)
             => /\ error' = "none"
                /\ SegmentTexts(returned') = FirstChars(text, totalLength)]_vars

\* A strand drawn 3' to 5' without insertions has been given a sequence of
\* its total length and read back
C21_Witness ==
    /\ lastOp = "getSequenceList"
    /\ ~isDrawn5to3
    /\ NoInsertionsOnStrand
    /\ sequence # None
    /\ Len(sequence) = totalLength
    /\ totalLength >= 3
    /\ returned = <<<<baseIdxLow + totalLength, <<sequence, <<>> >> >> >>

\* A string of the sequence list as it lies from low to high index
LowToHigh(s) == IF isDrawn5to3 THEN s ELSE reversed(s)

\* The segment text of tuple i of the returned list from low to high
\* index, without the blank that stands for the skip of the tuple
Unskipped(i) ==
    LET seg == LowToHigh(returned[i][2][1])
        ins == insertionsOnStrand(baseIdxLow, baseIdxHigh)
    IN  IF i <= Len(ins) /\ heap[ins[i]].length < 0
        THEN SubSeq(seg, 1, Len(seg) - 1)
        ELSE seg

\* The characters of the returned list from tuple i on, in tuple order
RECURSIVE Joined(_)
Joined(i) ==
    IF i > Len(returned) THEN <<>>
    ELSE Unskipped(i) \o LowToHigh(returned[i][2][2]) \o Joined(i + 1)

(* C28: for a strand whose stored sequence has exactly totalLength()       *)
(* characters, getSequenceList returns one tuple per insertion of the      *)
(* interval, in ascending index order, and a trailing tuple; the segment   *)
(* and insertion texts in tuple order, the blank of each skip taken out,   *)
(* are the low-to-high sequence, every character once and in order; the    *)
(* insertion text of a positive insertion has the insertion's length, that *)
(* of a skip is empty.                                                     *)
C28_SequenceListPartition ==
    (lastOp = "getSequenceList" /\ sequence # None
      /\ Len(sequence) = totalLength)
    => LET ins == insertionsOnStrand(baseIdxLow, baseIdxHigh)
       IN  /\ error = "none"
           /\ Len(returned) = Len(ins) + 1
           /\ \A i \in DOMAIN ins :
                 /\ returned[i][1] = heap[ins[i]].idx
                 /\ i > 1 => returned[i - 1][1] < returned[i][1]
                 /\ Len(returned[i][2][2])
                      = IF heap[ins[i]].length < 0 THEN 0
                        ELSE heap[ins[i]].length
                 /\ heap[ins[i]].length < 0
                    => /\ returned[i][2][1] # <<>>
                       /\ LowToHigh(returned[i][2][1])
                              [Len(returned[i][2][1])] = Blank
           /\ Joined(1) = LowToHigh(sequence)

\* A strand drawn 3' to 5' with an insertion and a skip in its interval has
\* had its sequence of four characters listed
C28_Witness ==
    /\ lastOp = "getSequenceList"
    /\ ~isDrawn5to3
    /\ sequence # None
    /\ Len(sequence) = totalLength
    /\ totalLength = 4
    /\ Len(returned) = 3
    /\ \E i, j \in DOMAIN insertions :
          /\ InRange(i) /\ StoredLength(i) = 2
          /\ InRange(j) /\ StoredLength(j) = -1
          /\ i < j

---------------------------------------------------------------------------
(* C22: whenever the strand has a sequence assigned, the stored sequence   *)
(* has exactly totalLength() characters, in every state reached by         *)
(* setSequence, setComplimentSequence (a string or None, any partner       *)
(* interval), resize and the insertion edits.                              *)
C22_SequenceCoversTotalLength ==
    sequence # None => Len(sequence) = totalLength

---------------------------------------------------------------------------
(* Vocabulary of the complement property.  The partner is on the StrandSet *)
(* drawn the other way: its 5'-to-3' string runs from its high index down  *)
(* when the strand itself is drawn 5' to 3', and from its low index up     *)
(* otherwise.                                                              *)

Absent == "absent"

\* The character of the strand at base index k when its stored sequence is
\* seq: blank without a sequence, Absent where the sequence has no
\* character for k
CharAt(seq, k) ==
    LET i == IF isDrawn5to3 THEN k - baseIdxLow + 1 ELSE baseIdxHigh - k + 1
    IN  IF seq = None THEN Blank
        ELSE IF i \in DOMAIN seq THEN seq[i] ELSE Absent

\* The character of the partner's string text at base index k
TextAt(text, strand, k) ==
    text[IF isDrawn5to3 THEN strand.high - k + 1 ELSE k - strand.low + 1]

\* What the claim says of setComplimentSequence(text, strand)
Complemented(text, strand) ==
    /\ \A k \in baseIdxLow..baseIdxHigh :
          IF strand.low <= k /\ k <= strand.high
          THEN CharAt(sequence', k) = TextAt(text, strand, k)
          ELSE CharAt(sequence', k) = CharAt(sequence, k)
    /\ (strand.low = baseIdxLow /\ strand.high = baseIdxHigh)
       => sequence' = reversed(text)

(* C23: for two strands without insertions that have a base index in       *)
(* common, setComplimentSequence(text, partner) with text the partner's    *)
(* 5'-to-3' string of length partner.totalLength() gives this strand at    *)
(* every base index of the overlap the character text has at that base     *)
(* index and leaves its characters at the other base indices as they were  *)
(* (blank if no sequence was assigned); when the two intervals are the     *)
(* same, this strand read 5' to 3' is text reversed.                       *)
C23_ComplementOverOverlap ==
    [][lastOp' = "setComplimentSequence"
       => \A text \in PartnerTexts, strand \in PartnersOver :
             (/\ Len(text) = strand.high - strand.low + 1
              /\ NoInsertionsOnStrand
              /\ sequence' # None   \* a text of letters leaves a sequence
              /\ CallSetComplimentSequence(text, strand))
             => Complemented(text, strand)]_vars

=============================================================================
